---- MODULE Spec2Model ----
(***************************************************************************)
(* Structural Index Builder of lazynote's GitAgent (git_agent.py): the     *)
(* discovery pass (_gen_module_dict, _process_package, _process_module),   *)
(* the Doc Index flattener (_generate_module_doc_dict), the tree renderer  *)
(* (_generate_project_tree) and invalidate-and-rebuild                     *)
(* (_update_module_dict).                                                  *)
(*                                                                         *)
(* Representation.  A Python str is a sequence of one-character strings,   *)
(* so that startswith, split(".") and sorted() are computed on characters. *)
(* A Python dict is [py |-> "dict", items |-> <<  <<key, value>>, ... >>], *)
(* in insertion order, as Python keeps it.  A module or class object is    *)
(* [py |-> "object", name |-> ...].  None is the value None below.         *)
(***************************************************************************)
EXTENDS Integers, Sequences, FiniteSets, TLC

VARIABLES
    broken,           \* unit name -> the error its source raises when executed
    filled,           \* top-level units whose sources the docstring engine has filled
    sys_modules,      \* sys.modules: the process-wide loaded-unit cache
    module_dict,      \* self.module_dict: the Structural Graph
    module_doc_dict,  \* self.module_doc_dict: the Doc Index
    log,              \* what LOG.info recorded about failed units, in order
    pc,               \* "new" before GitAgent.__init__ has run, "ready" after
    passes,           \* number of discovery passes run so far
    modules_to_del,   \* what the latest _update_module_dict deleted from sys.modules
    dirty,            \* sources were rewritten since the latest discovery pass
    module_list,      \* argument of the latest _generate_project_tree call
    tree              \* what that call returned

vars == <<broken, filled, sys_modules, module_dict, module_doc_dict, log, pc,
          passes, modules_to_del, dirty, module_list, tree>>

----------------------------------------------------------------------------
(* Python strings *)

\* The characters the model's names and texts use, in code-point order.
AsciiOrder ==
    << "\n", " ", "#", "-", ".", "/", ":",
       "A", "B", "C", "D", "E", "F", "G", "H", "I", "J", "K", "L", "M",
       "N", "O", "P", "Q", "R", "S", "T", "U", "V", "W", "X", "Y", "Z", "_",
       "a", "b", "c", "d", "e", "f", "g", "h", "i", "j", "k", "l", "m",
       "n", "o", "p", "q", "r", "s", "t", "u", "v", "w", "x", "y", "z" >>

Ord(c) == CHOOSE i \in 1..Len(AsciiOrder) : AsciiOrder[i] = c

\* a < b for two str values (lexicographic by code point).
RECURSIVE StrLess(_, _)
StrLess(a, b) ==
    IF b = <<>> THEN FALSE
    ELSE IF a = <<>> THEN TRUE
    ELSE IF Head(a) = Head(b) THEN StrLess(Tail(a), Tail(b))
    ELSE Ord(Head(a)) < Ord(Head(b))

\* s.startswith(p)
StartsWith(s, p) == Len(p) <= Len(s) /\ SubSeq(s, 1, Len(p)) = p

\* s.endswith(p)
EndsWith(s, p) ==
    Len(p) <= Len(s) /\ SubSeq(s, Len(s) - Len(p) + 1, Len(s)) = p

\* s.split("."): always at least one part, possibly empty.
RECURSIVE SplitFrom(_, _)
SplitFrom(s, cur) ==
    IF s = <<>> THEN <<cur>>
    ELSE IF Head(s) = "." THEN <<cur>> \o SplitFrom(Tail(s), <<>>)
    ELSE SplitFrom(Tail(s), Append(cur, Head(s)))

Split(s) == SplitFrom(s, <<>>)

\* sep.join(parts)
RECURSIVE Join(_, _)
Join(parts, sep) ==
    IF parts = <<>> THEN <<>>
    ELSE IF Len(parts) = 1 THEN parts[1]
    ELSE parts[1] \o sep \o Join(Tail(parts), sep)

\* s.lstrip(".")
RECURSIVE LStripDot(_)
LStripDot(s) ==
    IF s # <<>> /\ Head(s) = "." THEN LStripDot(Tail(s)) ELSE s

\* s * n
RECURSIVE Repeat(_, _)
Repeat(s, n) == IF n = 0 THEN <<>> ELSE s \o Repeat(s, n - 1)

\* The text of a str value, for comparison with a literal.
RECURSIVE Str(_)
Str(s) == IF s = <<>> THEN "" ELSE Head(s) \o Str(Tail(s))

Dot == <<".">>
NL == <<"\n">>

\* None, and `doc or ''`.
None == <<"<None>">>
OrEmpty(doc) == IF doc = None THEN <<>> ELSE doc

----------------------------------------------------------------------------
(* Python dicts *)

EmptyDict == [py |-> "dict", items |-> <<>>]

\* TLC evaluates what it is handed only when it is first read.  A loop that
\* reads the result of one step before it goes on (Ran) evaluates its steps
\* one after the other, as the program runs them, instead of nesting them.
Ran(x) == DOMAIN x # {}

DKeys(d) == {d.items[i][1] : i \in 1..Len(d.items)}
DHas(d, k) == \E i \in 1..Len(d.items) : d.items[i][1] = k
DGet(d, k) == d.items[CHOOSE i \in 1..Len(d.items) : d.items[i][1] = k][2]
Truthy(d) == Len(d.items) > 0

\* d[k] = v: an existing key keeps its position, a new one goes last.
DSet(d, k, v) ==
    IF DHas(d, k)
    THEN [d EXCEPT !.items =
            [i \in 1..Len(d.items) |->
                IF d.items[i][1] = k THEN <<k, v>> ELSE d.items[i]]]
    ELSE [d EXCEPT !.items = Append(d.items, <<k, v>>)]

\* d |= e
RECURSIVE DUpdateFrom(_, _, _)
DUpdateFrom(d, e, i) ==
    IF i > Len(e.items) THEN d
    ELSE LET d1 == DSet(d, e.items[i][1], e.items[i][2])
         IN  IF Ran(d1) THEN DUpdateFrom(d1, e, i + 1) ELSE d1

DUpdate(d, e) == DUpdateFrom(d, e, 1)

Single(k, v) == [py |-> "dict", items |-> << <<k, v>> >>]

IsDict(v) == v.py = "dict"

----------------------------------------------------------------------------
(* Tree Renderer: GitAgent._generate_project_tree *)

\* The inner loop without the membership test of line 229: every part
\* starts from an empty mapping.
RECURSIVE InsertPartsMutant(_, _)
InsertPartsMutant(current, parts) ==
    IF parts = <<>> THEN current
    ELSE DSet(current, Head(parts), InsertPartsMutant(EmptyDict, Tail(parts)))

\* The inner loop over the parts of one module_path (lines 227-231).
RECURSIVE InsertParts(_, _)
InsertParts(current, parts) ==
    IF parts = <<>> THEN current
    ELSE LET part == Head(parts)
             c1 == IF DHas(current, part) THEN current
                   ELSE DSet(current, part, EmptyDict)
         IN  DSet(c1, part, InsertParts(DGet(c1, part), Tail(parts)))

\* The loop over module_list (lines 224-231).
RECURSIVE BuildTreeDict(_, _)
BuildTreeDict(tree_dict, list) ==
    IF list = <<>> THEN tree_dict
    ELSE LET t1 == InsertParts(tree_dict, Split(Head(list)))
         IN  IF Ran(t1) THEN BuildTreeDict(t1, Tail(list)) ELSE t1

\* The pairs in the order the mapping holds them.
SortedItemsMutant(items) == items

\* sorted(pairs) for <<name, children>> pairs with distinct names.
RECURSIVE SortedItems(_)
SortedItems(items) ==
    IF items = <<>> THEN <<>>
    ELSE LET m == CHOOSE i \in 1..Len(items) :
                     \A j \in 1..Len(items) :
                         j # i => StrLess(items[i][1], items[j][1])
             rest == [k \in 1..(Len(items) - 1) |->
                         IF k < m THEN items[k] ELSE items[k + 1]]
         IN  <<items[m]>> \o SortedItems(rest)

\* One rendered node (lines 245-249).
RenderLine(indent, name, children) ==
    IF Truthy(children)
    THEN indent \o <<"-", " ">> \o name \o <<"/">>
    ELSE indent \o <<"-", " ">> \o name

\* process_tree_dict (lines 233-250): the list of rendered lines.
RECURSIVE process_tree_dict(_, _)
RECURSIVE ProcessItems(_, _)
ProcessItems(items, level) ==
    IF items = <<>> THEN <<>>
    ELSE LET name == Head(items)[1]
             children == Head(items)[2]
             indent == Repeat(<<" ", " ">>, level)
         IN  <<RenderLine(indent, name, children)>>
             \o (IF Truthy(children)
                 THEN process_tree_dict(children, level + 1) ELSE <<>>)
             \o ProcessItems(Tail(items), level)

process_tree_dict(tree_dict, level) ==
    ProcessItems(SortedItems(tree_dict.items), level)

\* _generate_project_tree(module_list) (lines 216-253).
generate_project_tree(list) ==
    Join(process_tree_dict(BuildTreeDict(EmptyDict, list), 0), NL)

----------------------------------------------------------------------------
(* The projects and caches the model is run on *)

MaxBroken == 1
MaxPasses == 3
MaxNames == 3

Dir(name, init, entries) ==
    [kind |-> "dir", name |-> name, init |-> init, entries |-> entries]
File(name, doc, members) ==
    [kind |-> "file", name |-> name, doc |-> doc, members |-> members]
Class(name, owner, doc, methods) ==
    [kind |-> "class", name |-> name, owner |-> owner, doc |-> doc, methods |-> methods]
Function(name, owner, doc) ==
    [kind |-> "function", name |-> name, owner |-> owner, doc |-> doc, methods |-> <<>>]
Method(name, doc, inherited) ==
    [kind |-> "function", name |-> name, doc |-> doc, inherited |-> inherited]

N_app == <<"a", "p", "p">>
N_models == <<"m", "o", "d", "e", "l", "s">>
N_db == <<"d", "b">>
N_db_util == <<"d", "b", "_", "u", "t", "i", "l">>
N_api == <<"a", "p", "i">>
N_sub == <<"s", "u", "b">>
N_x == <<"x">>
N_deep == <<"d", "e", "e", "p">>
N_y == <<"y">>
N_tests == <<"t", "e", "s", "t", "s">>
N_test_x == <<"t", "e", "s", "t", "_", "x">>
N_hollow == <<"h", "o", "l", "l", "o", "w">>
N_nothing == <<"n", "o", "t", "h", "i", "n", "g">>
N_void == <<"v", "o", "i", "d">>
N_testkit == <<"t", "e", "s", "t", "k", "i", "t">>
N_helpers == <<"h", "e", "l", "p", "e", "r", "s">>
N_scratch == <<"s", "c", "r", "a", "t", "c", "h">>
N_appdirs == <<"a", "p", "p", "d", "i", "r", "s">>

Q(a, b) == a \o Dot \o b

C_User ==
    Class(<<"U", "s", "e", "r">>, Q(N_app, N_models), None,
          << Method(<<"s", "a", "v", "e">>, <<"P", "e", "r", "s", "i", "s", "t", "s", " ", "t", "h", "e", " ", "u", "s", "e", "r">>, FALSE) >>)
C_Conn ==
    Class(<<"C", "o", "n", "n">>, Q(N_app, N_db_util), <<"A", " ", "c", "o", "n", "n", "e", "c", "t", "i", "o", "n">>,
          << Method(<<"p", "i", "n", "g">>, None, FALSE) >>)
C_Child ==
    Class(<<"C", "h", "i", "l", "d">>, Q(Q(N_app, N_sub), N_x), None,
          << Method(<<"r", "u", "n">>, <<"R", "u", "n", "s">>, FALSE), Method(<<"p", "i", "n", "g">>, None, TRUE) >>)

\* A project with the shapes the discovery pass distinguishes: a loose file,
\* a package three levels deep, modules that import from their siblings, a
\* package of modules that declare nothing, a package with no module, and a
\* package named as the skip list names.  Listings are in no sorted order.
Project ==
    Dir(<<>>, FALSE, <<
        File(N_scratch, None, << Function(<<"m", "a", "i", "n">>, N_scratch, None) >>),
        Dir(N_hollow, TRUE, << File(N_nothing, None, <<>>) >>),
        Dir(N_app, TRUE, <<
            File(N_models, <<"U", "s", "e", "r", " ", "m", "o", "d", "e", "l", " ", "m", "o", "d", "u", "l", "e">>, << C_User >>),
            File(N_db_util, None, << C_Conn >>),
            File(N_db, None,
                 << C_User, Function(<<"c", "o", "n", "n", "e", "c", "t">>, Q(N_app, N_db), <<"C", "o", "n", "n", "e", "c", "t", "s">>), C_Conn >>),
            File(N_api, <<"R", "e", "-", "e", "x", "p", "o", "r", "t", "s">>, << C_User >>),
            Dir(N_tests, TRUE,
                << File(N_test_x, None,
                        << Function(<<"t">>, Q(Q(N_app, N_tests), N_test_x), None) >>) >>),
            Dir(N_sub, TRUE, <<
                File(N_x, None, << C_Conn, C_Child >>),
                Dir(N_deep, TRUE,
                    << File(N_y, None,
                            << Class(<<"D">>, Q(Q(Q(N_app, N_sub), N_deep), N_y),
                                     None, <<>>) >>) >>) >>) >>),
        Dir(N_void, TRUE, <<>>),
        Dir(N_testkit, TRUE,
            << File(N_helpers, None,
                    << Function(<<"h">>, Q(N_testkit, N_helpers), None) >>) >>) >>)

\* The dotted names of the packages and modules below a directory.
RECURSIVE UnitNames(_, _)
UnitNames(dir, prefix) ==
    UNION { LET e == dir.entries[i]
                name == prefix \o e.name
            IN  IF e.kind = "file" THEN {name}
                ELSE (IF e.init THEN {name} ELSE {}) \cup UnitNames(e, name \o Dot)
            : i \in 1..Len(dir.entries) }

Units == UnitNames(Project, <<>>)

\* At most MaxBroken units fail to load.  Each raises an error other than
\* ImportError: the two differ only where pkgutil imports a package the
\* loop body has skipped, and the one package this project has there holds
\* no package.
Breakages ==
    { [n \in B |-> "Exception"] :
        B \in {b \in SUBSET Units : Cardinality(b) <= MaxBroken} }

\* Units of the installation that a process may hold loaded (none is part
\* of the project).
ThirdParty == { N_appdirs }

Caches == { [n \in T |-> FALSE] : T \in SUBSET ThirdParty }

\* The dotted names the tree renderer is run on.
TreeNames ==
    { <<"a">>, <<"b">>, <<"a", ".", "a">>, <<"a", ".", "b">>, <<"b", ".", "a">>, <<"a", "b">>, <<"a", ".", "b", ".", "c">>, <<"B">>, <<"a", "p", "p", ".", "m", "o", "d", "e", "l", "s">> }

RECURSIVE SeqsUpTo(_, _)
SeqsUpTo(S, n) ==
    IF n = 0 THEN {<<>>}
    ELSE LET shorter == SeqsUpTo(S, n - 1)
         IN  shorter \cup {Append(q, x) : q \in shorter, x \in S}

----------------------------------------------------------------------------
(* The files on disk.

   A directory is [kind |-> "dir", name, init, entries]: init says whether
   it holds __init__.py.  A source file is [kind |-> "file", name, doc,
   members]: name is the file name without ".py", members what its
   namespace holds once it has run.  Executing a unit's source raises when
   the unit is in DOMAIN broken: broken[name] is "ImportError", or
   "Exception" for a SyntaxError or any other error.  A member is [kind,
   name, owner, doc, methods]: owner is its __module__, the unit that
   declares it; a method is [name, doc, inherited].                       *)

NoUnit == [kind |-> "absent"]

PY == <<".", "p", "y">>
FileName(e) == IF e.kind = "file" THEN e.name \o PY ELSE e.name

\* The entry a dotted name resolves to below `dir` (sys.path holds project_path).
RECURSIVE FindIn(_, _)
FindIn(dir, parts) ==
    IF parts = <<>> THEN dir
    ELSE IF dir.kind # "dir" THEN NoUnit
    ELSE LET dirs == {i \in 1..Len(dir.entries) :
                         /\ dir.entries[i].kind = "dir"
                         /\ dir.entries[i].name = Head(parts)}
             files == {i \in 1..Len(dir.entries) :
                         /\ dir.entries[i].kind = "file"
                         /\ dir.entries[i].name = Head(parts)
                         /\ Len(parts) = 1}
         IN  IF dirs # {} THEN FindIn(dir.entries[CHOOSE i \in dirs : TRUE], Tail(parts))
             ELSE IF files # {} THEN dir.entries[CHOOSE i \in files : TRUE]
             ELSE NoUnit

FindUnit(name) == FindIn(Project, Split(name))

\* What executing the source of unit `name` does.
LoadOf(name) == IF name \in DOMAIN broken THEN broken[name] ELSE "ok"

\* ".".join(name.split(".")[:-1])
ParentName(name) ==
    LET parts == Split(name) IN Join(SubSeq(parts, 1, Len(parts) - 1), Dot)

\* name is r or lies below r in the dotted hierarchy.
IsUnder(name, r) == name = r \/ StartsWith(name, r \o Dot)

\* Whether the docstring engine has rewritten the source of unit `name`.
SourceFilled(name) == \E r \in filled : IsUnder(name, r)

\* What the engine writes where documentation is missing.
GeneratedDoc == <<"g", "e", "n">>

----------------------------------------------------------------------------
(* Loading units: importlib and sys.modules.  A cache maps the name of a
   loaded unit to whether its source was already filled when it ran.      *)

Loaded(cache, name) == (name :> SourceFilled(name)) @@ cache
Unloaded(cache, name) == [n \in (DOMAIN cache) \ {name} |-> cache[n]]

\* The units a source file imports members from, in member order.
RECURSIVE ImportedOwners(_, _)
ImportedOwners(members, self) ==
    IF members = <<>> THEN <<>>
    ELSE (IF Head(members).owner # self THEN <<Head(members).owner>> ELSE <<>>)
         \o ImportedOwners(Tail(members), self)

\* importlib.import_module(name): [exc, cache].
RECURSIVE ImportModule(_, _)
RECURSIVE ImportAll(_, _)
RECURSIVE RestOfImports(_, _)
RECURSIVE ExecUnit(_, _, _)
RECURSIVE ImportUnder(_, _)

\* The imports a module's source runs, in order, up to the first that fails.
ImportAll(names, cache) ==
    IF names = <<>> THEN [exc |-> "ok", cache |-> cache]
    ELSE RestOfImports(Tail(names), ImportModule(Head(names), cache))

RestOfImports(names, r) ==
    IF r.exc # "ok" THEN r ELSE ImportAll(names, r.cache)

\* The unit is executed once its parent package has been imported.
ImportUnder(name, r0) ==
    IF r0.exc # "ok" THEN r0 ELSE ExecUnit(name, FindUnit(name), r0.cache)

\* A module's own imports have run: it stays in sys.modules only if none
\* failed.
AfterImports(name, r1) ==
    IF r1.exc # "ok"
    THEN [exc |-> r1.exc, cache |-> Unloaded(r1.cache, name)]
    ELSE r1

\* Finding the unit and executing its source.
ExecUnit(name, unit, cache) ==
    IF unit.kind = "absent" THEN
        \* not a unit of the project: a unit of the installation
        IF FindUnit(Split(name)[1]).kind = "absent"
        THEN [exc |-> "ok", cache |-> Loaded(cache, name)]
        ELSE [exc |-> "ImportError", cache |-> cache]
    ELSE IF unit.kind = "dir" THEN
        IF unit.init /\ LoadOf(name) # "ok"
        THEN [exc |-> LoadOf(name), cache |-> cache]
        ELSE [exc |-> "ok", cache |-> Loaded(cache, name)]
    ELSE IF LoadOf(name) # "ok" THEN [exc |-> LoadOf(name), cache |-> cache]
    ELSE AfterImports(name, ImportAll(ImportedOwners(unit.members, name),
                                      Loaded(cache, name)))

ImportModule(name, cache) ==
    IF StartsWith(name, Dot) THEN [exc |-> "Exception", cache |-> cache]
    ELSE IF name \in DOMAIN cache THEN [exc |-> "ok", cache |-> cache]
    ELSE IF ParentName(name) = <<>> THEN ExecUnit(name, FindUnit(name), cache)
    ELSE ImportUnder(name, ImportModule(ParentName(name), cache))

\* importer.find_module(modname).load_module(modname): runs the package's
\* __init__.py again whether or not the package is cached.
LoadModule(name, cache) ==
    IF LoadOf(name) # "ok" THEN [exc |-> LoadOf(name), cache |-> cache]
    ELSE [exc |-> "ok", cache |-> Loaded(cache, name)]

\* The documentation a loaded member carries: that of the source its
\* declaring unit ran from.
LoadedDoc(owner, doc, cache) ==
    IF doc = None /\ owner \in DOMAIN cache /\ cache[owner]
    THEN GeneratedDoc ELSE doc

----------------------------------------------------------------------------
(* Entity Extractor: GitAgent._process_module

   The loops thread the mapping they build through their first argument;
   Ran holds of every mapping, and asking it first has the argument
   computed before the loop descends.                                     *)

K_obj == <<"o", "b", "j">>
K_doc == <<"d", "o", "c">>
K_method == <<"m", "e", "t", "h", "o", "d">>
K_children == <<"c", "h", "i", "l", "d", "r", "e", "n">>
K_module == <<"m", "o", "d", "u", "l", "e">>

Object(name) == [py |-> "object", name |-> name]

\* Keeps the pairs whose value satisfies the kind test, in order.
RECURSIVE OfKind(_, _)
OfKind(members, kind) ==
    IF members = <<>> THEN <<>>
    ELSE (IF Head(members).kind = kind
          THEN << <<Head(members).name, Head(members)>> >> ELSE <<>>)
         \o OfKind(Tail(members), kind)

\* inspect.getmembers(obj, predicate): the <<name, value>> pairs, sorted by name.
GetMembers(members, kind) == SortedItems(OfKind(members, kind))

\* _get_abs_name (lines 423-424)
GetAbsName(f_module_name, obj_name) == LStripDot(f_module_name \o Dot \o obj_name)

\* The ownership test of lines 427 and 435.
Owned(owner, module_name) == StartsWith(owner, module_name)

\* The loop over a class's functions (lines 430-432).
RECURSIVE MethodDict(_, _, _, _, _)
MethodDict(d, methods, cls, f_module_name, cache) ==
    IF ~Ran(d) \/ methods = <<>> THEN d
    ELSE LET m == Head(methods)[2]
         IN  MethodDict(
                 DSet(d, GetAbsName(f_module_name, cls.name \o Dot \o m.name),
                      [py |-> "dict",
                       items |-> << <<K_doc, LoadedDoc(cls.owner, m.doc, cache)>>,
                                    <<K_obj, Object(cls.name \o Dot \o m.name)>> >>]),
                 Tail(methods), cls, f_module_name, cache)

\* c_dict (lines 429-432)
ClassDict(c, f_module_name, cache) ==
    [py |-> "dict",
     items |-> << <<K_doc, LoadedDoc(c.owner, c.doc, cache)>>,
                  <<K_obj, Object(c.name)>>,
                  <<K_method,
                    MethodDict(EmptyDict, GetMembers(c.methods, "function"),
                               c, f_module_name, cache)>> >>]

\* The loop over the module's classes (lines 426-433).
RECURSIVE ClassLoop(_, _, _, _, _)
ClassLoop(m_dict, classes, module_name, f_module_name, cache) ==
    IF ~Ran(m_dict) \/ classes = <<>> THEN m_dict
    ELSE LET c == Head(classes)[2]
         IN  ClassLoop(IF Owned(c.owner, module_name)
                       THEN DSet(m_dict, GetAbsName(f_module_name, c.name),
                                 ClassDict(c, f_module_name, cache))
                       ELSE m_dict,
                       Tail(classes), module_name, f_module_name, cache)

\* The loop over the module's functions (lines 434-437).
RECURSIVE FunctionLoop(_, _, _, _, _)
FunctionLoop(m_dict, functions, module_name, f_module_name, cache) ==
    IF ~Ran(m_dict) \/ functions = <<>> THEN m_dict
    ELSE LET f == Head(functions)[2]
         IN  FunctionLoop(IF Owned(f.owner, module_name)
                          THEN DSet(m_dict, f_module_name \o Dot \o f.name,
                                    [py |-> "dict",
                                     items |-> << <<K_doc, LoadedDoc(f.owner, f.doc, cache)>>,
                                                  <<K_obj, Object(f.name)>> >>])
                          ELSE m_dict,
                          Tail(functions), module_name, f_module_name, cache)

\* lines 438-440
ModuleResult(module_name, m_dict) ==
    IF ~Truthy(m_dict) THEN EmptyDict
    ELSE Single(module_name, m_dict)

\* _process_module(module, f_module_name) (lines 414-440).  module_name is
\* module.__name__ and members what the module object holds: nothing when
\* the module was created and never executed.
process_module(module_name, members, f_module_name, cache) ==
    ModuleResult(module_name,
        FunctionLoop(
            ClassLoop(Single(K_obj, Object(module_name)),
                      GetMembers(members, "class"),
                      module_name, f_module_name, cache),
            GetMembers(members, "function"),
            module_name, f_module_name, cache))

----------------------------------------------------------------------------
(* Package Walker: GitAgent._process_package *)

\* skip_modules = ["docs", "test", "tests"] (line 387)
skip_modules ==
    << <<"d", "o", "c", "s">>, <<"t", "e", "s", "t">>, <<"t", "e", "s", "t", "s">> >>

\* The directory listing pkgutil.iter_modules walks: sorted by file name.
RECURSIVE Named(_)
Named(entries) ==
    IF entries = <<>> THEN <<>>
    ELSE << <<FileName(Head(entries)), Head(entries)>> >> \o Named(Tail(entries))

Listing(dir) == SortedItems(Named(dir.entries))

AnyPrefix(name, prefixes) == \E p \in prefixes : StartsWith(name, p)
Elems(seq) == {seq[i] : i \in 1..Len(seq)}

RECURSIVE process_package(_, _, _, _)
RECURSIVE WalkPackages(_, _, _)
RECURSIVE LoopBody(_, _, _)
RECURSIVE ProcessSubPackage(_, _, _, _)
RECURSIVE AfterLoopBody(_, _, _)
RECURSIVE AfterGeneratorImport(_, _, _, _)

\* lines 456-458 once the recursive call has returned (or raised).
MergeChildren(modname, st, sub) ==
    IF sub.exc # "ok"
    THEN [st EXCEPT !.exc = sub.exc, !.cache = sub.cache, !.log = sub.log]
    ELSE [st EXCEPT !.children = DUpdate(@, sub.dict),
                    !.processed = @ \cup {modname},
                    !.cache = sub.cache, !.log = sub.log]

\* The ispkg branch, lines 456-460, ld being what load_module did: the
\* branch is outside the try, so what it raises leaves the loop.
ProcessSubPackage(e, modname, st, ld) ==
    IF ld.exc # "ok" THEN [st EXCEPT !.exc = ld.exc, !.cache = ld.cache]
    ELSE MergeChildren(modname, st,
                       process_package(e, modname, ld.cache, st.log))

\* The try block, lines 461-467, r being what import_module did.
ProcessSubModule(e, modname, st, r) ==
    IF r.exc # "ok"
    THEN [st EXCEPT !.cache = r.cache,
                    !.log = Append(@, <<"skipping", modname>>)]
    ELSE IF AnyPrefix(modname, st.processed)
    THEN [st EXCEPT !.cache = r.cache]
    ELSE [st EXCEPT !.cache = r.cache,
                    !.module = DUpdate(@, process_module(modname, e.members,
                                                         modname, r.cache))]

\* The body of the for loop, lines 454-467, for one yielded (modname, ispkg).
LoopBody(e, modname, st) ==
    IF AnyPrefix(modname, Elems(skip_modules)) THEN st
    ELSE IF e.kind = "dir"
    THEN ProcessSubPackage(e, modname, st, LoadModule(modname, st.cache))
    ELSE ProcessSubModule(e, modname, st, ImportModule(modname, st.cache))

\* pkgutil.walk_packages(path, prefix) driving the loop of line 453: each
\* entry is handed to the loop body, and when it is a package the generator
\* then imports it (an ImportError is swallowed, any other exception is
\* raised) and continues with the package's own entries.
WalkPackages(items, prefix, st) ==
    IF st.exc # "ok" \/ items = <<>> THEN st
    ELSE IF Head(items)[2].kind = "dir" /\ ~Head(items)[2].init
    THEN WalkPackages(Tail(items), prefix, st)
    ELSE AfterLoopBody(items, prefix,
                       LoopBody(Head(items)[2],
                                prefix \o Head(items)[2].name, st))

\* The generator resumes after the loop body has run on its first item.
AfterLoopBody(items, prefix, st1) ==
    IF st1.exc # "ok" THEN st1
    ELSE IF Head(items)[2].kind = "file"
    THEN WalkPackages(Tail(items), prefix, st1)
    ELSE AfterGeneratorImport(
             items, prefix, st1,
             ImportModule(prefix \o Head(items)[2].name, st1.cache))

\* The generator has imported the package it yielded.
AfterGeneratorImport(items, prefix, st1, r) ==
    IF r.exc = "ImportError"
    THEN WalkPackages(Tail(items), prefix, [st1 EXCEPT !.cache = r.cache])
    ELSE IF r.exc # "ok" THEN [st1 EXCEPT !.exc = r.exc, !.cache = r.cache]
    ELSE WalkPackages(Tail(items), prefix,
                      WalkPackages(Listing(Head(items)[2]),
                                   prefix \o Head(items)[2].name \o Dot,
                                   [st1 EXCEPT !.cache = r.cache]))

\* lines 468-470, st being the loop's outcome.
PackageResult(name, st) ==
    IF st.exc # "ok"
    THEN [exc |-> st.exc, dict |-> EmptyDict, cache |-> st.cache, log |-> st.log]
    ELSE IF ~Truthy(st.children) /\ ~Truthy(st.module)
    THEN [exc |-> "ok", dict |-> EmptyDict, cache |-> st.cache, log |-> st.log]
    ELSE [exc |-> "ok",
          dict |-> Single(name,
                          [py |-> "dict",
                           items |-> << <<K_obj, Object(name)>>,
                                        <<K_children, st.children>>,
                                        <<K_module, st.module>> >>]),
          cache |-> st.cache, log |-> st.log]

\* _process_package(module, skip_modules) (lines 442-470): [exc, dict, cache, log].
process_package(dir, name, cache, lg) ==
    PackageResult(name,
        WalkPackages(Listing(dir), name \o Dot,
                     [exc |-> "ok", children |-> EmptyDict,
                      module |-> EmptyDict, processed |-> {},
                      cache |-> cache, log |-> lg]))

----------------------------------------------------------------------------
(* Doc Index Flattener: GitAgent._generate_module_doc_dict *)

DGetOr(d, k, default) == IF DHas(d, k) THEN DGet(d, k) ELSE default
LastPart(name) == LET parts == Split(name) IN parts[Len(parts)]

\* add_doc (lines 308-318)
add_doc(docs, name, subname, doc, level) ==
    LET d0 == IF DHas(docs, name) THEN docs ELSE DSet(docs, name, <<>>)
    IN  DSet(d0, name,
             DGet(d0, name) \o level \o <<" ">> \o subname \o <<":", "\n">>
                 \o OrEmpty(doc) \o <<"\n", "\n">>)

\* The loop over a class's methods (lines 333-342).
RECURSIVE MethodDocs(_, _, _, _)
MethodDocs(docs, items, module_name, obj_name) ==
    IF ~Ran(docs) \/ items = <<>> THEN docs
    ELSE MethodDocs(add_doc(docs, module_name,
                            obj_name \o Dot \o LastPart(Head(items)[1]),
                            DGetOr(Head(items)[2], K_doc, <<>>),
                            <<"#", "#", "#">>),
                    Tail(items), module_name, obj_name)

\* One item of a module (lines 327-342).
ObjectDoc(docs, obj_name, obj_info, module_name) ==
    IF ~IsDict(obj_info) THEN docs
    ELSE IF DHas(obj_info, K_method)
    THEN MethodDocs(add_doc(docs, module_name, obj_name,
                            DGetOr(obj_info, K_doc, <<>>), <<"#", "#">>),
                    DGet(obj_info, K_method).items, module_name, obj_name)
    ELSE add_doc(docs, module_name, obj_name,
                 DGetOr(obj_info, K_doc, <<>>), <<"#", "#">>)

\* The loop over one module's items (lines 326-342).
RECURSIVE ObjectDocs(_, _, _)
ObjectDocs(docs, items, module_name) ==
    IF ~Ran(docs) \/ items = <<>> THEN docs
    ELSE ObjectDocs(ObjectDoc(docs, LastPart(Head(items)[1]), Head(items)[2],
                              module_name),
                    Tail(items), module_name)

\* The loop over a package's modules (lines 324-342).
RECURSIVE ModuleDocs(_, _)
ModuleDocs(docs, items) ==
    IF ~Ran(docs) \/ items = <<>> THEN docs
    ELSE LET module_name == Head(items)[1]
             module_info == Head(items)[2]
         IN  ModuleDocs(ObjectDocs(add_doc(docs, module_name, module_name,
                                           DGetOr(module_info, K_doc, <<>>),
                                           <<"#">>),
                                   module_info.items, module_name),
                        Tail(items))

RECURSIVE generate_module_doc_dict(_, _)
RECURSIVE UnitDocs(_, _)

\* lines 321-322
OwnDoc(docs, name, doc) ==
    IF doc # None /\ doc # <<>> THEN add_doc(docs, name, name, doc, <<"#">>)
    ELSE docs

\* lines 323-342
ModulesOf(docs, info) ==
    IF DHas(info, K_module) THEN ModuleDocs(docs, DGet(info, K_module).items)
    ELSE docs

\* lines 344-345
ChildrenOf(docs, info) ==
    IF DHas(info, K_children)
    THEN generate_module_doc_dict(docs, DGet(info, K_children))
    ELSE docs

\* The loop of line 320.
UnitDocs(docs, items) ==
    IF ~Ran(docs) \/ items = <<>> THEN docs
    ELSE LET name == Head(items)[1]
             info == Head(items)[2]
         IN  UnitDocs(ChildrenOf(ModulesOf(OwnDoc(docs, name,
                                                  DGetOr(info, K_doc, None)),
                                           info),
                                 info),
                      Tail(items))

\* _generate_module_doc_dict(module_dict) (lines 303-345), accumulating
\* into the self.module_doc_dict it is handed.
generate_module_doc_dict(docs, graph) == UnitDocs(docs, graph.items)

----------------------------------------------------------------------------
(* Filesystem Scanner: GitAgent._gen_module_dict *)

\* The file names the scanner never takes for loose modules (lines 396-397).
ReservedFiles ==
    { <<"_", "_", "i", "n", "i", "t", "_", "_">>, <<"s", "e", "t", "u", "p">>,
      <<"c", "o", "n", "f", "t", "e", "s", "t">>, <<"w", "s", "g", "i">>,
      <<"a", "s", "g", "i">> }

\* The directory names os.walk is told not to enter (lines 379-380).
PrunedDirs ==
    { <<"_", "_", "p", "y", "c", "a", "c", "h", "e", "_", "_">>,
      <<"t", "e", "s", "t", "s">>, <<"d", "o", "c", "s">> }

\* os.path.relpath(root, project_path).replace(os.sep, ".")
RelName(rel) == IF rel = <<>> THEN Dot ELSE Join(rel, Dot)

\* The loop over the files of one directory (lines 395-410): the module
\* object is made from the file's spec and its source never executed.
RECURSIVE FileLoop(_, _, _)
FileLoop(entries, rel, g) ==
    IF ~Ran(g) \/ entries = <<>> THEN g
    ELSE LET e == Head(entries)
         IN  FileLoop(Tail(entries), rel,
                      IF /\ e.kind = "file"
                         /\ e.name \notin ReservedFiles
                         /\ RelName(rel) \notin g.processed_packages
                      THEN [g EXCEPT !.module_dict =
                               DUpdate(@, process_module(e.name, <<>>, <<>>,
                                                         g.cache))]
                      ELSE g)

\* lines 390-393, p being what _process_package returned (or raised).
MergeRoot(module_name, g, p) ==
    IF p.exc # "ok"
    THEN [g |-> [g EXCEPT !.cache = p.cache,
                          !.log = Append(p.log, <<"error", module_name>>)],
          skip |-> FALSE]
    ELSE [g |-> [g EXCEPT !.module_dict = DUpdate(@, p.dict),
                          !.processed_packages = @ \cup {module_name},
                          !.cache = p.cache, !.log = p.log],
          skip |-> FALSE]

\* lines 387-393, r being what import_module did at line 386.
ProcessRoot(dir, module_name, g, r) ==
    IF r.exc # "ok"
    THEN [g |-> [g EXCEPT !.cache = r.cache,
                          !.log = Append(@, <<"error", module_name>>)],
          skip |-> FALSE]
    ELSE IF ParentName(module_name) \in g.processed_packages
    THEN [g |-> [g EXCEPT !.cache = r.cache], skip |-> TRUE]
    ELSE MergeRoot(module_name, g,
                   process_package(dir, module_name, r.cache, g.log))

\* The package branch of one os.walk step (lines 382-393): [g, skip], skip
\* telling that line 389's `continue` left the step.
PackageStep(dir, rel, g) ==
    IF dir.init
    THEN ProcessRoot(dir, RelName(rel), g, ImportModule(RelName(rel), g.cache))
    ELSE [g |-> g, skip |-> FALSE]

\* os.walk(project_path), top-down, with the body of lines 379-410.
RECURSIVE Walk(_, _, _)
RECURSIVE WalkDirs(_, _, _)
WalkDirs(entries, rel, g) ==
    IF ~Ran(g) \/ entries = <<>> THEN g
    ELSE LET e == Head(entries)
         IN  WalkDirs(Tail(entries), rel,
                      IF /\ e.kind = "dir"
                         /\ ~StartsWith(e.name, Dot)
                         /\ e.name \notin PrunedDirs
                      THEN Walk(e, Append(rel, e.name), g)
                      ELSE g)

\* The files of the directory, unless the step was left, then the
\* directories below it.
AfterPackageStep(dir, rel, s) ==
    WalkDirs(dir.entries, rel,
             IF s.skip THEN s.g ELSE FileLoop(dir.entries, rel, s.g))

Walk(dir, rel, g) == AfterPackageStep(dir, rel, PackageStep(dir, rel, g))

\* line 411, g being what the walk left.
Flattened(docs, g) ==
    [module_dict |-> g.module_dict,
     module_doc_dict |-> generate_module_doc_dict(docs, g.module_dict),
     cache |-> g.cache, log |-> g.log]

\* _gen_module_dict (lines 374-412): [module_dict, module_doc_dict, cache, log].
gen_module_dict(graph, docs, cache, lg) ==
    Flattened(docs,
              Walk(Project, <<>>,
                   [module_dict |-> graph, processed_packages |-> {},
                    cache |-> cache, log |-> lg]))

----------------------------------------------------------------------------
(* Index Invalidation: GitAgent._update_module_dict *)

\* The test of line 368 for one cached name.
Evicted(name, project_modules) ==
    \E mod \in project_modules : StartsWith(name, mod)

\* modules_to_del (lines 365-369), as a set.
ModulesToDel(cache, graph) == {n \in DOMAIN cache : Evicted(n, DKeys(graph))}

\* lines 370-371
Evict(cache, dels) == [n \in (DOMAIN cache) \ dels |-> cache[n]]

----------------------------------------------------------------------------
(* Operations *)

Init ==
    /\ broken \in Breakages
    /\ filled = {}
    /\ sys_modules \in Caches
    /\ module_dict = EmptyDict
    /\ module_doc_dict = EmptyDict
    /\ log = <<>>
    /\ pc = "new"
    /\ passes = 0
    /\ modules_to_del = {}
    /\ dirty = FALSE
    /\ module_list = <<>>
    /\ tree = <<>>

\* GitAgent.__init__ (lines 51-55): both maps start empty, then one pass.
Construct ==
    /\ pc = "new"
    /\ \E r \in {gen_module_dict(EmptyDict, EmptyDict, sys_modules, <<>>)} :
           /\ module_dict' = r.module_dict
           /\ module_doc_dict' = r.module_doc_dict
           /\ sys_modules' = r.cache
           /\ log' = r.log
    /\ pc' = "ready"
    /\ passes' = 1
    /\ dirty' = FALSE
    /\ UNCHANGED <<broken, filled, modules_to_del, module_list, tree>>

\* A rebuild that discards the cached units after it has walked the project.
EvictAfter(r, graph) ==
    [r EXCEPT !.cache = Evict(r.cache, ModulesToDel(r.cache, graph))]
        @@ [dels |-> ModulesToDel(r.cache, graph)]

update_module_dict_Mutant(cache, graph, docs) ==
    EvictAfter(gen_module_dict(graph, docs, cache, <<>>), graph)

\* _update_module_dict (lines 363-372): [module_dict, module_doc_dict, cache,
\* log, dels].
update_module_dict(cache, graph, docs) ==
    LET dels == ModulesToDel(cache, graph)
    IN  gen_module_dict(graph, docs, Evict(cache, dels), <<>>) @@ [dels |-> dels]

UpdateModuleDict ==
    /\ pc = "ready"
    /\ passes < MaxPasses
    /\ \E r \in {update_module_dict(sys_modules, module_dict, module_doc_dict)} :
           /\ module_dict' = r.module_dict
           /\ module_doc_dict' = r.module_doc_dict
           /\ sys_modules' = r.cache
           /\ log' = r.log
           /\ modules_to_del' = r.dels
    /\ passes' = passes + 1
    /\ dirty' = FALSE
    /\ UNCHANGED <<broken, filled, pc, module_list, tree>>

\* _generate_docstring (lines 75-83): the docstring engine is handed every
\* top-level unit of the graph and rewrites its source where documentation
\* is missing.
GenerateDocstring ==
    /\ pc = "ready"
    /\ ~(DKeys(module_dict) \subseteq filled)
    /\ filled' = filled \cup DKeys(module_dict)
    /\ dirty' = TRUE
    /\ UNCHANGED <<broken, sys_modules, module_dict, module_doc_dict, log, pc,
                   passes, modules_to_del, module_list, tree>>

\* module_doc_dict.keys()
RECURSIVE KeyList(_)
KeyList(items) ==
    IF items = <<>> THEN <<>> ELSE <<Head(items)[1]>> \o KeyList(Tail(items))

\* The project structure _generate_readme asks for (line 263).
GenerateReadme ==
    /\ pc = "ready"
    /\ module_list' = KeyList(module_doc_dict.items)
    /\ tree' = generate_project_tree(KeyList(module_doc_dict.items))
    /\ UNCHANGED <<broken, filled, sys_modules, module_dict, module_doc_dict,
                   log, pc, passes, modules_to_del, dirty>>

Next == Construct \/ UpdateModuleDict \/ GenerateDocstring \/ GenerateReadme

Spec == Init /\ [][Next]_vars

\* The tree renderer on its own: any list of names, in any order, with
\* repetitions.
InitTree ==
    /\ broken = [n \in {} |-> "ok"]
    /\ filled = {}
    /\ sys_modules = [n \in {} |-> FALSE]
    /\ module_dict = EmptyDict
    /\ module_doc_dict = EmptyDict
    /\ log = <<>>
    /\ pc = "list"
    /\ passes = 0
    /\ modules_to_del = {}
    /\ dirty = FALSE
    /\ module_list \in SeqsUpTo(TreeNames, MaxNames)
    /\ tree = <<>>

GenerateProjectTree ==
    /\ pc = "list"
    /\ tree' = generate_project_tree(module_list)
    /\ pc' = "tree"
    /\ UNCHANGED <<broken, filled, sys_modules, module_dict, module_doc_dict,
                   log, passes, modules_to_del, dirty, module_list>>

NextTree == GenerateProjectTree

SpecTree == InitTree /\ [][NextTree]_vars

----------------------------------------------------------------------------
(* Reading the Structural Graph *)

\* The nodes of a graph, one per position: the entries of the mapping
\* itself, of each package's "module" mapping and of each package's
\* "children" mapping.  parent is the package whose mapping holds the
\* entry, <<>> at the top level.
RECURSIVE NodesOf(_, _)
NodesOf(items, parent) ==
    IF items = <<>> THEN <<>>
    ELSE LET name == Head(items)[1]
             info == Head(items)[2]
             here == [name |-> name, info |-> info, parent |-> parent,
                      package |-> DHas(info, K_children)]
             mods == IF DHas(info, K_module)
                     THEN NodesOf(DGet(info, K_module).items, name) ELSE <<>>
             subs == IF DHas(info, K_children)
                     THEN NodesOf(DGet(info, K_children).items, name) ELSE <<>>
         IN  <<here>> \o mods \o subs \o NodesOf(Tail(items), parent)

Nodes == NodesOf(module_dict.items, <<>>)

\* The classes and functions a module node records.
Entities(info) == DKeys(info) \ {K_obj}

Positions(nodes, name) == {i \in DOMAIN nodes : nodes[i].name = name}

ModuleUnits == {u \in Units : FindUnit(u).kind = "file"}

\* Loading unit u fails: its own source raises, or that of a package above
\* it, or that of a unit it imports from.
RECURSIVE Fails(_)
Fails(u) ==
    \/ u \in DOMAIN broken
    \/ ParentName(u) # <<>> /\ Fails(ParentName(u))
    \/ /\ FindUnit(u).kind = "file"
       /\ \E o \in Elems(ImportedOwners(FindUnit(u).members, u)) : Fails(o)

\* Some segment of the dotted name begins as a skip-list entry does: the
\* unit is skipped however the skip list is read.
SkipListed(u) ==
    \E seg \in Elems(Split(u)), p \in Elems(skip_modules) : StartsWith(seg, p)

IsLogged(u) == \E i \in DOMAIN log : log[i][2] = u

----------------------------------------------------------------------------
(* C1 *)

\* C1: when a discovery pass ends, every module of a package that loads
\* (not skip-listed, not in the subtree of a failed unit) is in the graph,
\* under its package's "module" mapping, whichever other unit failed to
\* load; and a loose file whose source raises is recorded as a failure and
\* is absent from the graph.
C1_LoadFailuresAreIsolated ==
    pc = "ready" =>
        /\ \A u \in ModuleUnits :
              (ParentName(u) # <<>> /\ ~Fails(u) /\ ~SkipListed(u)) =>
                  \E i \in DOMAIN Nodes :
                      /\ Nodes[i].name = u
                      /\ Nodes[i].parent = ParentName(u)
        /\ \A u \in ModuleUnits :
              (ParentName(u) = <<>> /\ u \in DOMAIN broken) =>
                  IsLogged(u) /\ ~DHas(module_dict, u)

\* The part of C1 the code keeps: a module whose own load fails costs the
\* graph nothing else.
C1_ModuleFailureIsIsolated ==
    (pc = "ready" /\ \A b \in DOMAIN broken :
                        FindUnit(b).kind = "file" /\ ParentName(b) # <<>>) =>
        \A u \in ModuleUnits :
            (ParentName(u) # <<>> /\ ~Fails(u) /\ ~SkipListed(u)) =>
                \E i \in DOMAIN Nodes :
                    /\ Nodes[i].name = u
                    /\ Nodes[i].parent = ParentName(u)

----------------------------------------------------------------------------
(* C2 *)

\* A node holds a class or a function: itself when it is a module, in some
\* module below it when it is a package.
RECURSIVE HoldsEntity(_)
HoldsEntity(info) ==
    IF DHas(info, K_children)
    THEN \/ \E i \in DOMAIN DGet(info, K_module).items :
                HoldsEntity(DGet(info, K_module).items[i][2])
         \/ \E i \in DOMAIN DGet(info, K_children).items :
                HoldsEntity(DGet(info, K_children).items[i][2])
    ELSE Entities(info) # {}

\* C2: no node of the graph is a module without an entity, and no package
\* node is without an entity anywhere below it (so none has both mappings
\* empty).
C2_EmptyUnitsAreOmitted ==
    pc = "ready" => \A i \in DOMAIN Nodes : HoldsEntity(Nodes[i].info)

\* The part of C2 the code keeps: no package node has both mappings empty.
C2_NoPackageWithBothMappingsEmpty ==
    pc = "ready" =>
        \A i \in DOMAIN Nodes :
            Nodes[i].package =>
                \/ Truthy(DGet(Nodes[i].info, K_module))
                \/ Truthy(DGet(Nodes[i].info, K_children))

----------------------------------------------------------------------------
(* C3 *)

\* The names of the classes and functions visible in unit u that u declares.
DeclaredIn(u) ==
    {m.name : m \in {x \in Elems(FindUnit(u).members) : x.owner = u}}

\* C3: for every module of a package, the entities the graph records are
\* exactly the classes and functions the module declares itself.
C3_RecordedEntitiesAreDeclaredHere ==
    pc = "ready" =>
        \A i \in DOMAIN Nodes :
            (~Nodes[i].package /\ Nodes[i].parent # <<>>) =>
                {LastPart(k) : k \in Entities(Nodes[i].info)}
                    = DeclaredIn(Nodes[i].name)

----------------------------------------------------------------------------
(* C4 *)

\* C4: a rebuild deletes from the cache exactly the entries whose name is,
\* or is dot-nested under, a top-level key of the graph, and no other.
C4_EvictsOnlyProjectUnits ==
    [][(pc = "ready" /\ passes' = passes + 1) =>
          modules_to_del' =
              {n \in DOMAIN sys_modules :
                  \E k \in DKeys(module_dict) : IsUnder(n, k)}]_vars

\* The part of C4 the code keeps: every entry that is, or is nested under,
\* a top-level key is deleted.
C4_EvictsEveryProjectUnit ==
    [][(pc = "ready" /\ passes' = passes + 1) =>
          {n \in DOMAIN sys_modules :
              \E k \in DKeys(module_dict) : IsUnder(n, k)}
              \subseteq modules_to_del']_vars

----------------------------------------------------------------------------
(* C5 *)

\* `<marker> <qualifier>:\n<doc or empty>\n\n`
DocEntry(marker, qualifier, doc) ==
    marker \o <<" ">> \o qualifier \o <<":", "\n">> \o OrEmpty(doc) \o <<"\n", "\n">>

RECURSIVE MethodEntries(_, _)
MethodEntries(cls, methods) ==
    IF methods = <<>> THEN <<>>
    ELSE DocEntry(<<"#", "#", "#">>, cls.name \o Dot \o Head(methods)[2].name,
                  Head(methods)[2].doc)
         \o MethodEntries(cls, Tail(methods))

RECURSIVE ClassEntries(_)
ClassEntries(classes) ==
    IF classes = <<>> THEN <<>>
    ELSE LET c == Head(classes)[2]
         IN  DocEntry(<<"#", "#">>, c.name, c.doc)
             \o MethodEntries(c, GetMembers(c.methods, "function"))
             \o ClassEntries(Tail(classes))

\* The Doc Index entry of a module whose namespace holds classes only.
ModuleEntry(u) ==
    DocEntry(<<"#">>, u, FindUnit(u).doc)
        \o ClassEntries(GetMembers(FindUnit(u).members, "class"))

\* Unit u declares every member it holds, each a class with no inherited
\* method.
PlainModule(u) ==
    \A m \in Elems(FindUnit(u).members) :
        /\ m.kind = "class"
        /\ m.owner = u
        /\ \A f \in Elems(m.methods) : ~f.inherited

\* C5: after the initial build, the Doc Index entry of a module of a
\* package is the module's heading with the module's documentation, then
\* each class's heading with its documentation, each followed by its
\* methods' headings with theirs; for app.models it is the text the
\* specification gives.
C5_DocIndexEntryContent ==
    (pc = "ready" /\ passes = 1) =>
        /\ \A i \in DOMAIN Nodes :
              LET u == Nodes[i].name
              IN  (/\ ~Nodes[i].package
                   /\ Nodes[i].parent # <<>>
                   /\ PlainModule(u)
                   /\ Cardinality(Positions(Nodes, u)) = 1) =>
                      /\ DHas(module_doc_dict, u)
                      /\ DGet(module_doc_dict, u) = ModuleEntry(u)
        /\ DOMAIN broken = {} =>
              /\ DHas(module_doc_dict, Q(N_app, N_models))
              /\ Str(DGet(module_doc_dict, Q(N_app, N_models))) =
                    "# app.models:\nUser model module\n\n## User:\n\n\n### User.save:\nPersists the user\n\n"

\* The part of C5 the code keeps: the same, for modules that carry no
\* documentation of their own.
C5_EntryContentWithoutModuleDoc ==
    (pc = "ready" /\ passes = 1) =>
        \A i \in DOMAIN Nodes :
            LET u == Nodes[i].name
            IN  (/\ ~Nodes[i].package
                 /\ Nodes[i].parent # <<>>
                 /\ PlainModule(u)
                 /\ FindUnit(u).doc = None
                 /\ Cardinality(Positions(Nodes, u)) = 1) =>
                    /\ DHas(module_doc_dict, u)
                    /\ DGet(module_doc_dict, u) = ModuleEntry(u)

----------------------------------------------------------------------------
(* C6 *)

\* C6: every key of the Doc Index names exactly one node of the graph.
C6_DocKeyHasOneNode ==
    pc = "ready" =>
        \A k \in DKeys(module_doc_dict) : Cardinality(Positions(Nodes, k)) = 1

\* The part of C6 the code keeps: no key of the Doc Index is dangling.
C6_DocKeyHasSomeNode ==
    pc = "ready" =>
        \A k \in DKeys(module_doc_dict) : Positions(Nodes, k) # {}

----------------------------------------------------------------------------
(* C7 *)

\* C7: a rebuild that follows a discovery pass with no file rewritten in
\* between leaves the Structural Graph as that pass left it; so two
\* rebuilds in a row on an unmodified project both end with the graph of
\* the initial build.
C7_RebuildIsIdempotent ==
    [][(pc = "ready" /\ passes' = passes + 1 /\ ~dirty) =>
          module_dict' = module_dict]_vars

\* Two rebuilds have followed the initial build and no file was rewritten.
C7_TwoRebuildsOfUnmodifiedProject ==
    /\ pc = "ready"
    /\ passes = 3
    /\ filled = {}
    /\ Len(Nodes) > 3

----------------------------------------------------------------------------
(* C8 and C9 *)

\* Number of lines of a text: of "\n".join(lines).
LineCount(text) ==
    IF text = <<>> THEN 0
    ELSE 1 + Cardinality({i \in DOMAIN text : text[i] = "\n"})

NoRepetition(list) ==
    \A i, j \in DOMAIN list : list[i] = list[j] => i = j

\* The segments of the names, and the nodes of their shared prefix tree:
\* a node is a non-empty leading run of a name's segments.
Segments(names) == UNION {Elems(Split(n)) : n \in names}
PrefixNodes(names) ==
    UNION {{SubSeq(Split(n), 1, k) : k \in 1..Len(Split(n))} : n \in names}

ProperPrefix(p, q) == Len(p) < Len(q) /\ SubSeq(q, 1, Len(p)) = p

\* Depth-first order with siblings in lexicographic order: a node comes
\* before its descendants, and otherwise the first differing segment
\* decides.
DepthFirstLess(p, q) ==
    \/ ProperPrefix(p, q)
    \/ \E i \in 1..Len(p) :
          /\ i <= Len(q)
          /\ SubSeq(p, 1, i - 1) = SubSeq(q, 1, i - 1)
          /\ p[i] # q[i]
          /\ StrLess(p[i], q[i])

RECURSIVE DepthFirst(_)
DepthFirst(nodes) ==
    IF nodes = {} THEN <<>>
    ELSE LET first == CHOOSE p \in nodes :
                         \A q \in nodes \ {p} : DepthFirstLess(p, q)
         IN  <<first>> \o DepthFirst(nodes \ {first})

NodeLine(p, nodes) ==
    Repeat(<<" ", " ">>, Len(p) - 1) \o <<"-", " ">> \o p[Len(p)]
        \o (IF \E q \in nodes : ProperPrefix(p, q) THEN <<"/">> ELSE <<>>)

RECURSIVE NodeLines(_, _)
NodeLines(order, nodes) ==
    IF order = <<>> THEN <<>>
    ELSE <<NodeLine(Head(order), nodes)>> \o NodeLines(Tail(order), nodes)

\* The rendering of the shared prefix tree of a set of names.
Rendering(names) ==
    Join(NodeLines(DepthFirst(PrefixNodes(names)), PrefixNodes(names)), NL)

\* C8, as the specification words it: for a list of unique names, the
\* output has as many lines as the names have distinct segments.
C8_LinesAreDistinctSegments ==
    (pc = "tree" /\ NoRepetition(module_list)) =>
        LineCount(tree) = Cardinality(Segments(Elems(module_list)))

\* C8, amended: for a list of unique names, the output has as many lines
\* as the shared prefix tree has nodes, that is as the names have distinct
\* non-empty dotted prefixes.
C8_LinesArePrefixNodes ==
    (pc = "tree" /\ NoRepetition(module_list)) =>
        LineCount(tree) = Cardinality(PrefixNodes(Elems(module_list)))

\* Two names whose segments are the same two, under different parents:
\* four lines for two distinct segments.
C8_SameSegmentUnderTwoParents ==
    /\ pc = "tree"
    /\ module_list = << <<"a", ".", "b">>, <<"b", ".", "a">> >>
    /\ LineCount(tree) = 4
    /\ Cardinality(Segments(Elems(module_list))) = 2

\* C9: the output is the rendering of the shared prefix tree of the set of
\* the names given, whatever their order and repetition; for the one name
\* app.models it is the two lines the specification gives.
C9_OutputIsRenderingOfNameSet ==
    pc = "tree" =>
        /\ tree = Rendering(Elems(module_list))
        /\ module_list = << Q(N_app, N_models) >> =>
              Str(tree) = "- app/\n  - models"

\* A list out of order and with a repetition, rendered as its set is.
C9_UnorderedRepeatedList ==
    /\ pc = "tree"
    /\ module_list = << <<"b", ".", "a">>, <<"a", ".", "b">>, <<"b", ".", "a">> >>
    /\ Str(tree) = "- a/\n  - b\n- b/\n  - a"

----------------------------------------------------------------------------
(* C10 *)

\* The nodes of the tree _process_package returned for the root package
\* that is the i-th top-level entry of the graph.
RootTree(i) == NodesOf(<<module_dict.items[i]>>, <<>>)

\* C10: in the tree returned for a root package, every unit appears once,
\* and where it appears is a mapping of its direct parent package.
C10_EachUnitMergedOnce ==
    pc = "ready" =>
        \A i \in DOMAIN module_dict.items :
            LET nodes == RootTree(i)
            IN  \A j \in DOMAIN nodes :
                    /\ Positions(nodes, nodes[j].name) = {j}
                    /\ nodes[j].parent # <<>> =>
                          nodes[j].parent = ParentName(nodes[j].name)

\* The part of C10 the code keeps: wherever a module appears, it is under
\* the "module" mapping of its direct parent package.
C10_EachModuleUnderItsParent ==
    pc = "ready" =>
        \A i \in DOMAIN module_dict.items :
            LET nodes == RootTree(i)
            IN  \A j \in DOMAIN nodes :
                    (~nodes[j].package /\ nodes[j].parent # <<>>) =>
                        nodes[j].parent = ParentName(nodes[j].name)

----------------------------------------------------------------------------
(* C11 *)

\* The top-level keys of the graph that are packages, and those that are
\* loose modules.
RootPackages ==
    {module_dict.items[i][1] : i \in {j \in DOMAIN module_dict.items :
                                  DHas(module_dict.items[j][2], K_children)}}
LooseModules == DKeys(module_dict) \ RootPackages

\* C11: the package keys at the top level of the graph are maximal (none
\* lies below another at any depth), and no file of a directory inside a
\* top-level package is a loose module of the graph.
C11_RootsAreMaximal ==
    pc = "ready" =>
        /\ \A k \in RootPackages, r \in RootPackages :
              IsUnder(k, r) => k = r
        /\ \A u \in ModuleUnits :
              (\E r \in RootPackages : IsUnder(u, r)) =>
                  LastPart(u) \notin LooseModules

\* The part of C11 the code keeps: no direct child of a top-level package
\* is a top-level key, and no file of a directory inside a top-level
\* package is a loose module.
C11_NoChildOfRootIsRoot ==
    pc = "ready" =>
        /\ \A k \in RootPackages : ParentName(k) \notin RootPackages
        /\ \A u \in ModuleUnits :
              (\E r \in RootPackages : IsUnder(u, r)) =>
                  LastPart(u) \notin LooseModules

----------------------------------------------------------------------------
(* C12 *)

\* What flattening the graph into an empty Doc Index gives.
FlattenedFromEmpty == generate_module_doc_dict(EmptyDict, module_dict)

\* C12: after every discovery pass, the initial build or a rebuild, the Doc
\* Index is what flattening the Structural Graph from an empty index gives.
C12_DocIndexRebuiltFromEmpty ==
    pc = "ready" => module_doc_dict = FlattenedFromEmpty

\* The part of C12 the code keeps: the Doc Index of the initial build is
\* flattened from empty, and after any pass its keys are those of the graph
\* flattened from empty.
C12_DocIndexKeysRebuilt ==
    pc = "ready" =>
        /\ passes = 1 => module_doc_dict = FlattenedFromEmpty
        /\ DKeys(module_doc_dict) = DKeys(FlattenedFromEmpty)

----------------------------------------------------------------------------
(* C13 *)

\* The class named cls that unit u's namespace holds.
ClassOf(u, cls) ==
    CHOOSE c \in Elems(FindUnit(u).members) : c.kind = "class" /\ c.name = cls

\* The names of the methods a class declares itself, and of all it has.
DeclaredMethods(c) == {f.name : f \in {x \in Elems(c.methods) : ~x.inherited}}
AllMethods(c) == {f.name : f \in Elems(c.methods)}

\* The classes the graph records: <<module, key, c_dict>> for every key of a
\* module node of a package that carries a "method" mapping.
RecordedClasses ==
    UNION {{<<Nodes[i].name, k, DGet(Nodes[i].info, k)>> :
                k \in {x \in Entities(Nodes[i].info) :
                          DHas(DGet(Nodes[i].info, x), K_method)}} :
           i \in {j \in DOMAIN Nodes :
                     ~Nodes[j].package /\ Nodes[j].parent # <<>>}}

RecordedMethods(c_dict) == {LastPart(k) : k \in DKeys(DGet(c_dict, K_method))}

\* C13: the "method" mapping of every recorded class holds exactly the
\* methods the class declares itself, none that it inherits.
C13_MethodsAreDeclaredInClass ==
    pc = "ready" =>
        \A rc \in RecordedClasses :
            RecordedMethods(rc[3]) = DeclaredMethods(ClassOf(rc[1], LastPart(rc[2])))

\* The part of C13 the code keeps: every method the class declares itself
\* is recorded, under the key ClassName.methodName, and nothing is recorded
\* that the class does not have.
C13_DeclaredMethodsAreRecorded ==
    pc = "ready" =>
        \A rc \in RecordedClasses :
            LET c == ClassOf(rc[1], LastPart(rc[2]))
            IN  /\ DeclaredMethods(c) \subseteq RecordedMethods(rc[3])
                /\ RecordedMethods(rc[3]) \subseteq AllMethods(c)
                /\ \A k \in DKeys(DGet(rc[3], K_method)) :
                       k = rc[1] \o Dot \o c.name \o Dot \o LastPart(k)

----------------------------------------------------------------------------
(* C14 *)

\* The unit lies in a test or docs namespace of its root package: one of
\* the segments of its name below the root begins as a skip-list entry does.
InSkippedNamespace(u) ==
    \E seg \in Elems(Tail(Split(u))), p \in Elems(skip_modules) :
        StartsWith(seg, p)

\* The nodes of the graph below a top-level package.
Descendants == {Nodes[i] : i \in {j \in DOMAIN Nodes : Nodes[j].parent # <<>>}}

\* C14: no descendant of a root package that lies in a test or docs
\* namespace is in the node returned for the root, and when every unit
\* loads, every module of a package outside those namespaces is.
C14_SkipListDropsTestAndDocs ==
    pc = "ready" =>
        /\ \A n \in Descendants : ~InSkippedNamespace(n.name)
        /\ DOMAIN broken = {} =>
              \A u \in ModuleUnits :
                  (ParentName(u) # <<>> /\ ~InSkippedNamespace(u)) =>
                      \E n \in Descendants : n.name = u

\* The part of C14 the code keeps: no descendant whose full dotted name,
\* root included, begins as a skip-list entry does is in the returned node.
C14_SkipListOnFullName ==
    pc = "ready" =>
        \A n \in Descendants : ~AnyPrefix(n.name, Elems(skip_modules))

====
